---- MODULE Spec2Model ----
(***************************************************************************)
(* A model of hornet's metric.rs: the MetricType value codec, the          *)
(* Metric<T> descriptor (new, val, set_val) and the MMVMetric interface    *)
(* (write_value, set_mmap_view), over byte-addressed memory mappings.      *)
(*                                                                         *)
(* Numbers wider than 31 bits are written as sequences of base-256 digits, *)
(* most significant first ("digits").  A byte is an integer in 0..255.     *)
(***************************************************************************)
EXTENDS Integers, Sequences, FiniteSets, TLC

VARIABLES
    endian,   \* super::Endian: "BigEndian" or "LittleEndian", fixed per process
    metrics,  \* descriptor slot -> Metric<T> record, or NoMetric before new()
    mem,      \* mapping name -> bytes of the mapping ("scratch", "file")
    cursor,   \* the Cursor<&mut [u8]> handed to write_value: [buf, pos]
    last,     \* the last call made and what it returned
    ctor,     \* descriptor slot -> the arguments new() was called with
    thr       \* per caller thread: progress of an unsynchronised set_val

vars == <<endian, metrics, mem, cursor, last, ctor, thr>>

----------------------------------------------------------------------------
(* Sizes.  STRING_BLOCK_LEN and METRIC_NAME_MAX_LEN are defined by the     *)
(* crate root, outside metric.rs; the model is parametric in them and uses *)
(* small stand-ins.  ShortLen is the length of an undersized file view.    *)

STRING_BLOCK_LEN == 12
METRIC_NAME_MAX_LEN == 3
ShortLen == 3

ITEM_BIT_LEN == 10

Descs == {1, 2}

Min(a, b) == IF a <= b THEN a ELSE b

Reverse(s) == [i \in 1..Len(s) |-> s[Len(s) + 1 - i]]

Zeros(n) == [i \in 1..n |-> 0]

\* A text of n bytes, all `b`.
Text(n, b) == [i \in 1..n |-> b]

----------------------------------------------------------------------------
(* Value codec: impl_metric_type_for! and impl MetricType for String.      *)

\* transmute::<i32, u32>: the two's complement bit pattern of n, 4 digits.
I32Bits(n) ==
    LET hi == (n \div 65536) % 65536
        lo == n % 65536
    IN  << hi \div 256, hi % 256, lo \div 256, lo % 256 >>

\* transmute::<f32, u32>: IEEE 754 binary32, sign | exponent(8) | fraction(23).
F32Bits(v) ==
    << v.sign * 128 + v.exp \div 2,
       (v.exp % 2) * 128 + v.frac \div 65536,
       (v.frac \div 256) % 256,
       v.frac % 256 >>

\* transmute::<f64, u64>: IEEE 754 binary64, sign | exponent(11) | fraction(52);
\* the fraction is 7 digits whose first is below 16.
F64Bits(v) ==
    << v.sign * 128 + v.exp \div 16,
       (v.exp % 16) * 16 + v.fracd[1] >> \o SubSeq(v.fracd, 2, 7)

\* transmute::<$typ, $base_typ>(*self): the value's native bit pattern as an
\* unsigned integer of the base type (4 digits for u32, 8 for u64).
transmute(v) ==
    CASE v.ty = "i32" -> I32Bits(v.n)
      [] v.ty = "u32" -> v.d
      [] v.ty = "i64" -> I32Bits(v.hi) \o v.lo
      [] v.ty = "u64" -> v.d
      [] v.ty = "f32" -> F32Bits(v)
      [] v.ty = "f64" -> F64Bits(v)

\* Mutant of as_u64: `*self as u64` on the signed value, which sign-extends.
as_u64_sign_extending(bits) ==
    Text(8 - Len(bits), IF bits[1] >= 128 THEN 255 ELSE 0) \o bits

\* `as u64` on an unsigned base type: zero extension to 8 digits.
as_u64(bits) == Zeros(8 - Len(bits)) \o bits

\* <&mut [u8] as Write>::write_all and <Cursor<&mut [u8]> as Write>::write_all:
\* copies what fits at the writer's position, and fails with WriteZero when
\* that is not everything.  A writer is [buf, pos].  A cursor's position may
\* lie past the end of its buffer: the copy starts at the position clamped to
\* the buffer's length, and the position advances by the bytes copied.
write_all(w, data) ==
    LET start == Min(w.pos, Len(w.buf))
        amt   == Min(Len(data), Len(w.buf) - start)
    IN  [buf |-> [i \in 1..Len(w.buf) |->
                    IF start < i /\ i <= start + amt
                    THEN data[i - start] ELSE w.buf[i]],
         pos |-> w.pos + amt,
         res |-> IF amt = Len(data) THEN "Ok" ELSE "WriteZero"]

\* ByteOrder::write_u64 into a stack buffer of 8 bytes.
endian_bytes(e, n) == IF e = "BigEndian" THEN n ELSE Reverse(n)

\* WriteBytesExt::write_u64::<super::Endian>.
write_u64(e, w, n) == write_all(w, endian_bytes(e, n))

\* Mutant of HasNul: only a trailing zero byte is rejected.
HasNul_last_only(s) == Len(s) > 0 /\ s[Len(s)] = 0

\* CString::new fails on an interior zero byte.
HasNul(s) == \E i \in 1..Len(s) : s[i] = 0

\* Mutant of to_bytes_with_nul: to_bytes, without the terminator.
to_bytes_without_nul(s) == s

\* CString::to_bytes_with_nul.
to_bytes_with_nul(s) == s \o <<0>>

\* MetricType::write_to_writer.
write_to_writer(e, v, w) ==
    IF v.ty = "String"
    THEN IF HasNul(v.s)
         THEN [buf |-> w.buf, pos |-> w.pos, res |-> "InvalidInput"]
         ELSE write_all(w, to_bytes_with_nul(v.s))
    ELSE write_u64(e, w, as_u64(transmute(v)))

----------------------------------------------------------------------------
(* Memory mappings and views.                                              *)

FileLen == 16 + ShortLen

\* SCRATCH_VIEW: the whole anonymous mapping of STRING_BLOCK_LEN bytes.
SCRATCH_VIEW == [map |-> "scratch", off |-> 0, len |-> STRING_BLOCK_LEN]

\* Views of the mapped file a registry hands to set_mmap_view.
FileViews ==
    { [map |-> "file", off |-> 0,  len |-> 8],
      [map |-> "file", off |-> 8,  len |-> 8],
      [map |-> "file", off |-> 16, len |-> ShortLen] }

\* MmapViewSync::as_mut_slice: the bytes of the view.
as_mut_slice(m, view) == SubSeq(m[view.map], view.off + 1, view.off + view.len)

\* Mutant of store_slice: the view's offset into the mapping is dropped.
store_slice_at_start(m, view, bytes) ==
    [m EXCEPT ![view.map] =
        [i \in 1..Len(m[view.map]) |->
            IF i <= view.len THEN bytes[i] ELSE m[view.map][i]]]

\* The mappings after the bytes of `view` became `bytes`.
store_slice(m, view, bytes) ==
    [m EXCEPT ![view.map] =
        [i \in 1..Len(m[view.map]) |->
            IF view.off < i /\ i <= view.off + view.len
            THEN bytes[i - view.off] ELSE m[view.map][i]]]

----------------------------------------------------------------------------
(* Metric<T>.                                                              *)

NoMetric == [absent |-> TRUE]

Panic == [panic |-> TRUE]

\* a & b on naturals, bit by bit.
RECURSIVE BitAnd(_, _)
BitAnd(a, b) ==
    IF a = 0 \/ b = 0 THEN 0
    ELSE (a % 2) * (b % 2) + 2 * BitAnd(a \div 2, b \div 2)

\* Mutant of new: a name of exactly METRIC_NAME_MAX_LEN bytes is accepted.
new_name_inclusive(name, item, sem, dim, init_val, shorthelp, longhelp) ==
    IF /\ Len(name) <= METRIC_NAME_MAX_LEN
       /\ Len(shorthelp) < STRING_BLOCK_LEN
       /\ Len(longhelp) < STRING_BLOCK_LEN
    THEN [name      |-> name,
          item      |-> BitAnd(item, 2^ITEM_BIT_LEN - 1),
          sem       |-> sem,
          indom     |-> 0,
          dim       |-> dim,
          shorthelp |-> shorthelp,
          longhelp  |-> longhelp,
          val       |-> init_val,
          mmap_view |-> SCRATCH_VIEW]
    ELSE Panic

\* Mutant of new: the mask is 1 << ITEM_BIT_LEN, without the - 1.
new_mask_off_by_one(name, item, sem, dim, init_val, shorthelp, longhelp) ==
    IF /\ Len(name) < METRIC_NAME_MAX_LEN
       /\ Len(shorthelp) < STRING_BLOCK_LEN
       /\ Len(longhelp) < STRING_BLOCK_LEN
    THEN [name      |-> name,
          item      |-> BitAnd(item, 2^ITEM_BIT_LEN),
          sem       |-> sem,
          indom     |-> 0,
          dim       |-> dim,
          shorthelp |-> shorthelp,
          longhelp  |-> longhelp,
          val       |-> init_val,
          mmap_view |-> SCRATCH_VIEW]
    ELSE Panic

\* Metric::new: the descriptor, or Panic when an assert! fails.
new(name, item, sem, dim, init_val, shorthelp, longhelp) ==
    IF /\ Len(name) < METRIC_NAME_MAX_LEN
       /\ Len(shorthelp) < STRING_BLOCK_LEN
       /\ Len(longhelp) < STRING_BLOCK_LEN
    THEN [name      |-> name,
          item      |-> BitAnd(item, 2^ITEM_BIT_LEN - 1),
          sem       |-> sem,
          indom     |-> 0,
          dim       |-> dim,
          shorthelp |-> shorthelp,
          longhelp  |-> longhelp,
          val       |-> init_val,
          mmap_view |-> SCRATCH_VIEW]
    ELSE Panic

\* Metric::val.
val(m) == m.val

\* MMVMetric::item.
item(m) == m.item

\* Metric::set_val: the descriptor, the mappings and the result afterwards.
set_val(e, m, memory, new_val) ==
    LET r == write_to_writer(e, new_val,
                 [buf |-> as_mut_slice(memory, m.mmap_view), pos |-> 0])
    IN  [m   |-> [m EXCEPT !.val = new_val],
         mem |-> store_slice(memory, m.mmap_view, r.buf),
         res |-> r.res]

\* Mutant of set_mmap_view: the new view is dropped.
set_mmap_view_dropped(m, mmap_view) == m

\* MMVMetric::set_mmap_view.
set_mmap_view(m, mmap_view) == [m EXCEPT !.mmap_view = mmap_view]

\* MMVMetric::write_value.
write_value(e, m, cur) == write_to_writer(e, m.val, cur)

----------------------------------------------------------------------------
(* Inputs.                                                                 *)

I32(x) == [ty |-> "i32", n |-> x]
U32(ds) == [ty |-> "u32", d |-> ds]
I64(h, l) == [ty |-> "i64", hi |-> h, lo |-> l]
U64(ds) == [ty |-> "u64", d |-> ds]
F32(s, e, f) == [ty |-> "f32", sign |-> s, exp |-> e, frac |-> f]
F64(s, e, f) == [ty |-> "f64", sign |-> s, exp |-> e, fracd |-> f]
Str(bytes) == [ty |-> "String", s |-> bytes]

Types == {"i32", "u32", "i64", "u64", "f32", "f64", "String"}

\* Values the descriptors of the main specification are given.
Vals(ty) ==
    CASE ty = "i32" -> { I32(0), I32(-2) }
      [] ty = "u32" -> { U32(<<0, 0, 0, 1>>), U32(<<255, 0, 0, 7>>) }
      [] ty = "i64" -> { I64(0, <<0, 0, 0, 1>>), I64(-1, <<255, 255, 255, 254>>) }
      [] ty = "u64" -> { U64(<<0, 0, 0, 0, 0, 0, 0, 1>>),
                         U64(<<1, 2, 3, 4, 5, 6, 7, 8>>) }
      [] ty = "f32" -> { F32(0, 127, 0), F32(1, 128, 4194304) }
      [] ty = "f64" -> { F64(0, 1023, <<0, 0, 0, 0, 0, 0, 0>>),
                         F64(1, 1024, <<4, 0, 0, 0, 0, 0, 0>>) }
      [] ty = "String" -> { Str(<<97, 98>>), Str(<<97, 0, 98>>),
                            Str(Text(8, 99)) }

AllVals == UNION { Vals(ty) : ty \in Types }

----------------------------------------------------------------------------
(* The calls, one action each.                                             *)

Idle == [pc |-> "idle", pos |-> 0, res |-> "Ok", buf |-> <<>>, width |-> 8]

Call(op, d, arg, res) == [op |-> op, d |-> d, arg |-> arg, res |-> res]

\* A failed assert! panics: the caller makes no further call.
Running == last.res # "panic"

New(d, name, it, sem, dim, init_val, shorthelp, longhelp) ==
    /\ Running
    /\ metrics[d] = NoMetric
    /\ LET m == new(name, it, sem, dim, init_val, shorthelp, longhelp)
           args == [name |-> name, item |-> it, sem |-> sem, dim |-> dim,
                    init_val |-> init_val, shorthelp |-> shorthelp,
                    longhelp |-> longhelp]
       IN  /\ metrics' = IF m = Panic THEN metrics ELSE [metrics EXCEPT ![d] = m]
           /\ ctor' = IF m = Panic THEN ctor ELSE [ctor EXCEPT ![d] = args]
           /\ last' = Call("new", d, args, IF m = Panic THEN "panic" ELSE "Ok")
    /\ UNCHANGED <<endian, mem, cursor, thr>>

SetVal(d, new_val) ==
    /\ Running
    /\ metrics[d] # NoMetric
    /\ new_val.ty = metrics[d].val.ty
    /\ LET r == set_val(endian, metrics[d], mem, new_val)
       IN  /\ metrics' = [metrics EXCEPT ![d] = r.m]
           /\ mem' = r.mem
           /\ last' = Call("set_val", d, new_val, r.res)
    /\ UNCHANGED <<endian, cursor, ctor, thr>>

SetMmapView(d, view) ==
    /\ Running
    /\ metrics[d] # NoMetric
    /\ metrics' = [metrics EXCEPT ![d] = set_mmap_view(metrics[d], view)]
    /\ last' = Call("set_mmap_view", d, view, "Ok")
    /\ UNCHANGED <<endian, mem, cursor, ctor, thr>>

----------------------------------------------------------------------------
(* Spec: two descriptors, every value type, one caller.                    *)

NoCursor == [buf |-> <<>>, pos |-> 0, res |-> "Ok"]

InitCommon ==
    /\ endian \in {"BigEndian", "LittleEndian"}
    /\ metrics = [d \in Descs |-> NoMetric]
    /\ ctor = [d \in Descs |-> NoMetric]
    /\ cursor = NoCursor
    /\ last = Call("init", 0, NoMetric, "Ok")
    /\ thr = [d \in Descs |-> Idle]

\* The anonymous mapping starts zeroed; the file holds what it held.
Init ==
    /\ InitCommon
    /\ \E b \in {0, 255} :
          mem = [scratch |-> Zeros(STRING_BLOCK_LEN), file |-> Text(FileLen, b)]

Next ==
    \/ \E v \in AllVals :
          New(1, <<109>>, 1034, "Counter", 0, v, <<115>>, <<108>>)
    \/ \E v \in AllVals : SetVal(1, v)
    \/ \E view \in FileViews : SetMmapView(1, view)

Spec == Init /\ [][Next]_vars

----------------------------------------------------------------------------
(* Reading a backing region back, as a reader of the mapping does.         *)

NoValue == [none |-> TRUE]

\* 8 bytes in byte order e, as the digits of a 64-bit unsigned integer.
read_u64(e, bytes) ==
    IF e = "LittleEndian"
    THEN << bytes[8], bytes[7], bytes[6], bytes[5],
            bytes[4], bytes[3], bytes[2], bytes[1] >>
    ELSE bytes

\* The signed 32-bit integer with bit pattern d (4 digits).
I32Of(d) ==
    (IF d[1] >= 128 THEN d[1] - 256 ELSE d[1]) * 16777216
        + d[2] * 65536 + d[3] * 256 + d[4]

\* A 64-bit unsigned integer (8 digits) truncated to the width of `ty` and
\* reinterpreted as a value of `ty`.
Reinterpret(ty, u) ==
    LET w == SubSeq(u, 5, 8)
    IN  CASE ty = "i32" -> I32(I32Of(w))
          [] ty = "u32" -> U32(w)
          [] ty = "i64" -> I64(I32Of(SubSeq(u, 1, 4)), w)
          [] ty = "u64" -> U64(u)
          [] ty = "f32" -> F32(w[1] \div 128,
                               (w[1] % 128) * 2 + w[2] \div 128,
                               (w[2] % 128) * 65536 + w[3] * 256 + w[4])
          [] ty = "f64" -> F64(u[1] \div 128,
                               (u[1] % 128) * 16 + u[2] \div 16,
                               << u[2] % 16 >> \o SubSeq(u, 3, 8))

\* The value of type `ty` a region holds at offset 0: 8 bytes in byte order
\* e for a numeric type, the bytes before the first zero byte for text.
Decode(e, ty, region) ==
    IF ty = "String"
    THEN IF \E i \in 1..Len(region) : region[i] = 0
         THEN LET z == CHOOSE i \in 1..Len(region) :
                          /\ region[i] = 0
                          /\ \A j \in 1..(i - 1) : region[j] # 0
              IN  Str(SubSeq(region, 1, z - 1))
         ELSE NoValue
    ELSE IF Len(region) < 8 THEN NoValue
         ELSE Reinterpret(ty, read_u64(e, SubSeq(region, 1, 8)))

\* The bytes of descriptor d's current backing region.
Region(d) == as_mut_slice(mem, metrics[d].mmap_view)

\* The value descriptor d's backing region decodes to, as d's type.
Mirrored(d) == Decode(endian, metrics[d].val.ty, Region(d))

\* The same two, in the state a step leads to.
RegionNext(d) == as_mut_slice(mem', metrics'[d].mmap_view)

MirroredNext(d) == Decode(endian', metrics'[d].val.ty, RegionNext(d))

----------------------------------------------------------------------------
(* Claims about set_val and set_mmap_view on one descriptor (Spec).        *)

\* C1: a set_val(v) that returns Ok leaves val() equal to v and leaves the
\* descriptor's backing region, read from offset 0, decoding to v, whatever
\* bytes were in the region before.
C1_SetValMirrors ==
    \A d \in Descs :
        (last.op = "set_val" /\ last.d = d /\ last.res = "Ok")
            => /\ val(metrics[d]) = last.arg
               /\ Mirrored(d) = last.arg

\* C1 witness: a text was stored successfully into a file view, and the byte
\* after its terminator is a leftover of what the region held before.
C1_Witness ==
    /\ last.op = "set_val" /\ last.res = "Ok"
    /\ metrics[1].mmap_view.map = "file"
    /\ last.arg.ty = "String"
    /\ Len(Region(1)) >= Len(last.arg.s) + 2
    /\ Region(1)[Len(last.arg.s) + 2] # 0

\* C2: a set_val that returns an error leaves every byte of every mapping
\* as it was before the call.
C2_ErrorWritesNothing ==
    [][(last'.op = "set_val" /\ last'.res # "Ok") => mem' = mem]_vars

\* C3: right after a set_val that changed the in-process value, whatever it
\* returned, the backing region decodes to the value val() returns.
C3_ValueAndRegionConsistent ==
    [][\A d \in Descs :
          (/\ last'.op = "set_val" /\ last'.d = d
           /\ val(metrics'[d]) # val(metrics[d]))
              => MirroredNext(d) = val(metrics'[d])]_vars

\* The step is a set_mmap_view(d, view) that swapped only the handle: the
\* value and every metadata field of d are as before, and no byte of any
\* mapping changed.
RebindSwapsOnlyHandle ==
    \A d \in Descs :
        (last'.op = "set_mmap_view" /\ last'.d = d)
            => /\ metrics'[d].mmap_view = last'.arg
               /\ val(metrics'[d]) = val(metrics[d])
               /\ \A f \in {"name", "item", "sem", "indom", "dim",
                              "shorthelp", "longhelp"} :
                      metrics'[d][f] = metrics[d][f]
               /\ mem' = mem

\* After a set_mmap_view the new region does not decode to the value.
RebindLeavesRegionStale ==
    \A d \in Descs :
        (last'.op = "set_mmap_view" /\ last'.d = d)
            => MirroredNext(d) # val(metrics'[d])

\* After a set_mmap_view the new region holds the bytes it held before.
RebindKeepsRegionBytes ==
    \A d \in Descs :
        (last'.op = "set_mmap_view" /\ last'.d = d)
            => RegionNext(d) = as_mut_slice(mem, last'.arg)

\* A set_val changes bytes of the descriptor's current region only (so not
\* of the placeholder once rebound), and a successful one leaves that region
\* decoding to the new value.
SetValWritesCurrentRegion ==
    \A d \in Descs :
        (last'.op = "set_val" /\ last'.d = d)
            => LET view == metrics[d].mmap_view
               IN  /\ \A map \in DOMAIN mem : \A i \in 1..Len(mem[map]) :
                          mem'[map][i] # mem[map][i]
                              => /\ map = view.map
                                 /\ view.off < i /\ i <= view.off + view.len
                   /\ view # SCRATCH_VIEW => mem'.scratch = mem.scratch
                   /\ last'.res = "Ok" => MirroredNext(d) = last'.arg

\* C4 as claimed: set_mmap_view swaps only the handle and writes nothing, so
\* the new region does not reflect the value until the next set_val, and
\* every later set_val writes the new region and not the old one.
C4_RebindAsClaimed ==
    [][/\ RebindSwapsOnlyHandle
       /\ RebindLeavesRegionStale
       /\ SetValWritesCurrentRegion]_vars

\* C4 amended: set_mmap_view swaps only the handle and writes nothing, so the
\* new region keeps the bytes it held before the call (it decodes to the
\* value only if it already did), and every later set_val writes the new
\* region and not the old one.
C4_RebindOnlySwapsHandle ==
    [][/\ RebindSwapsOnlyHandle
       /\ RebindKeepsRegionBytes
       /\ SetValWritesCurrentRegion]_vars

\* C4 witness: right after a set_mmap_view to a file view, the new region
\* does not decode to the descriptor's value.
C4_Witness ==
    /\ last.op = "set_mmap_view"
    /\ metrics[1].mmap_view.map = "file"
    /\ Mirrored(1) # val(metrics[1])

----------------------------------------------------------------------------
(* SpecPair: two descriptors that start on the shared placeholder.         *)

PairVals ==
    { I32(1), I32(-2), U64(<<1, 2, 3, 4, 5, 6, 7, 8>>),
      Str(<<97, 98>>), Str(<<97, 0, 98>>) }

Live(d) == metrics[d] # NoMetric

InitPair ==
    /\ InitCommon
    /\ mem = [scratch |-> Zeros(STRING_BLOCK_LEN), file |-> Text(FileLen, 255)]

NextPair ==
    \/ \E d \in Descs, v \in PairVals :
          New(d, <<109>>, 7, "Instant", 1, v, <<115>>, <<108>>)
    \/ \E d \in Descs, v \in PairVals : SetVal(d, v)
    \/ \E d \in Descs, view \in FileViews :
          \* the registry rebinds a descriptor once
          /\ Live(d) /\ metrics[d].mmap_view = SCRATCH_VIEW
          /\ SetMmapView(d, view)

SpecPair == InitPair /\ [][NextPair]_vars

Disjoint(v1, v2) ==
    \/ v1.map # v2.map
    \/ v1.off + v1.len <= v2.off
    \/ v2.off + v2.len <= v1.off

\* Both descriptors exist and neither has been given a view of its own.
BothUnbound ==
    /\ Live(1) /\ Live(2)
    /\ metrics[1].mmap_view = SCRATCH_VIEW
    /\ metrics[2].mmap_view = SCRATCH_VIEW

\* A set_val on d changes bytes of d's current region only and leaves every
\* other descriptor as it was; when the other descriptor's region is
\* disjoint from d's, that region keeps its bytes.
SetValFrame ==
    \A d \in Descs : \A o \in Descs \ {d} :
        (last'.op = "set_val" /\ last'.d = d)
            => LET view == metrics[d].mmap_view
               IN  /\ metrics'[o] = metrics[o]
                   /\ \A map \in DOMAIN mem : \A i \in 1..Len(mem[map]) :
                          mem'[map][i] # mem[map][i]
                              => /\ map = view.map
                                 /\ view.off < i /\ i <= view.off + view.len
                   /\ (Live(o) /\ Disjoint(view, metrics[o].mmap_view))
                          => /\ RegionNext(o) = Region(o)
                             /\ val(metrics'[o]) = val(metrics[o])

\* A descriptor starts on the placeholder and keeps its view until a
\* set_mmap_view on it, so two unbound descriptors hold the same region.
UnboundShareScratch ==
    \A d \in Descs :
        /\ (~Live(d) /\ metrics'[d] # NoMetric)
              => metrics'[d].mmap_view = SCRATCH_VIEW
        /\ (Live(d) /\ ~(last'.op = "set_mmap_view" /\ last'.d = d))
              => metrics'[d].mmap_view = metrics[d].mmap_view

\* While both are unbound, a successful set_val on d stops the other's region
\* from decoding to the other's value.
SharedWriteAlwaysClobbers ==
    \A d \in Descs : \A o \in Descs \ {d} :
        (/\ last'.op = "set_val" /\ last'.d = d /\ last'.res = "Ok"
         /\ BothUnbound
         /\ Mirrored(o) = val(metrics[o]))
            => MirroredNext(o) # val(metrics'[o])

\* While both are unbound, the two regions are the same bytes; a successful
\* set_val on d leaves them decoding, as d's type, to d's new value, so the
\* other's region decodes to the other's value exactly when that value is
\* the one just stored (descriptors of the same type).
SharedWriteClobbers ==
    \A d \in Descs : \A o \in Descs \ {d} :
        (last'.op = "set_val" /\ last'.d = d /\ BothUnbound)
            => /\ RegionNext(o) = RegionNext(d)
               /\ last'.res = "Ok"
                     => Decode(endian, last'.arg.ty, RegionNext(o)) = last'.arg
               /\ (last'.res = "Ok" /\ metrics[o].val.ty = last'.arg.ty)
                     => (MirroredNext(o) = val(metrics'[o])
                            <=> val(metrics'[o]) = last'.arg)

\* C10 as claimed: set_val touches only its descriptor's region and no other
\* descriptor's value; descriptors on disjoint regions do not disturb each
\* other; two unbound descriptors share the placeholder, so a set_val on one
\* makes the other's region stop decoding to the other's value.
C10_AsClaimed ==
    [][SetValFrame /\ UnboundShareScratch /\ SharedWriteAlwaysClobbers]_vars

\* C10 amended: as claimed, except that on the shared placeholder a
\* successful set_val on one leaves the other's region holding the writer's
\* encoding, so that region stops decoding to the other's value when the two
\* values differ and still decodes to it when they are equal.
C10_SetValFrameAndSharing ==
    [][SetValFrame /\ UnboundShareScratch /\ SharedWriteClobbers]_vars

\* C10 witness: both descriptors are unbound, descriptor 1 has just stored a
\* value, and descriptor 2's region no longer decodes to descriptor 2's value.
C10_Witness ==
    /\ BothUnbound
    /\ last.op = "set_val" /\ last.d = 1 /\ last.res = "Ok"
    /\ metrics[2].val.ty = metrics[1].val.ty
    /\ Mirrored(2) # val(metrics[2])
    /\ Mirrored(2) = val(metrics[1])

----------------------------------------------------------------------------
(* SpecNew: Metric::new over names, help texts and item identifiers at and *)
(* around their limits, followed by set_val and set_mmap_view.             *)

\* A text of n distinct bytes: "abc...".
Name(n) == [i \in 1..n |-> 96 + i]

NameLens ==
    {1, METRIC_NAME_MAX_LEN - 1, METRIC_NAME_MAX_LEN, METRIC_NAME_MAX_LEN + 1}

HelpLens == {STRING_BLOCK_LEN - 1, STRING_BLOCK_LEN}

Items == {10, 1023, 1024, 1034, 66570, 2147483647}

NewVals == { I32(1), I32(-2) }

InitNew ==
    /\ InitCommon
    /\ mem = [scratch |-> Zeros(STRING_BLOCK_LEN), file |-> Text(FileLen, 255)]

NextNew ==
    \/ \E n \in NameLens, it \in Items, sem \in {"Counter", "Discrete"},
           v \in NewVals, sh \in HelpLens, lh \in HelpLens :
          New(1, Name(n), it, sem, 0, v, Text(sh, 115), Text(lh, 108))
    \/ \E v \in NewVals : SetVal(1, v)
    \/ \E view \in FileViews : SetMmapView(1, view)

SpecNew == InitNew /\ [][NextNew]_vars

\* C8: new succeeds exactly when the name is strictly shorter than
\* METRIC_NAME_MAX_LEN and both help texts are strictly shorter than
\* STRING_BLOCK_LEN; a failed new constructs nothing, and a successful one
\* stores the name and the help texts byte for byte.
C8_NewChecksLengths ==
    \A d \in Descs :
        (last.op = "new" /\ last.d = d)
            => /\ last.res = "Ok"
                    <=> /\ Len(last.arg.name) < METRIC_NAME_MAX_LEN
                        /\ Len(last.arg.shorthelp) < STRING_BLOCK_LEN
                        /\ Len(last.arg.longhelp) < STRING_BLOCK_LEN
               /\ last.res # "Ok" => metrics[d] = NoMetric
               /\ last.res = "Ok"
                    => /\ metrics[d].name = last.arg.name
                       /\ metrics[d].shorthelp = last.arg.shorthelp
                       /\ metrics[d].longhelp = last.arg.longhelp

\* C8 witness: new succeeded with a name and help texts one byte below their
\* limits.
C8_Witness ==
    /\ last.op = "new" /\ last.res = "Ok"
    /\ Len(metrics[1].name) = METRIC_NAME_MAX_LEN - 1
    /\ Len(metrics[1].shorthelp) = STRING_BLOCK_LEN - 1
    /\ Len(metrics[1].longhelp) = STRING_BLOCK_LEN - 1

\* C9: item() is the item identifier given to new modulo 1024 (so an
\* identifier below 1024 is kept), in every state after construction,
\* whatever set_val and set_mmap_view calls followed.
C9_ItemIsLowTenBits ==
    \A d \in Descs :
        Live(d) => /\ item(metrics[d]) = ctor[d].item % 1024
                   /\ ctor[d].item < 1024 => item(metrics[d]) = ctor[d].item

\* C9 witness: a descriptor constructed with item 1034 reports item 10 after
\* a later set_val.
C9_Witness ==
    /\ Live(1) /\ ctor[1].item = 1034 /\ item(metrics[1]) = 10
    /\ last.op = "set_val"
    /\ metrics[1].mmap_view # SCRATCH_VIEW

----------------------------------------------------------------------------
(* SpecCodec: write_value of one value into a caller's cursor, over values *)
(* at the edges of every type and cursors with and without room.           *)

CodecVals ==
    { I32(x) : x \in {0, 1, -1, 1034, -256, 2147483647, -2147483647 - 1} }
    \cup { U32(ds) : ds \in { <<0, 0, 0, 0>>, <<0, 0, 0, 1>>, <<128, 0, 0, 0>>,
                              <<255, 255, 255, 255>>, <<1, 2, 3, 4>> } }
    \cup { I64(0, <<0, 0, 0, 0>>), I64(0, <<128, 0, 0, 0>>),
           I64(-1, <<255, 255, 255, 255>>), I64(-1, <<0, 0, 0, 0>>),
           I64(2147483647, <<255, 255, 255, 255>>),
           I64(-2147483647 - 1, <<0, 0, 0, 0>>), I64(1, <<2, 3, 4, 5>>) }
    \cup { U64(ds) : ds \in { Zeros(8), Text(8, 255),
                              <<1, 2, 3, 4, 5, 6, 7, 8>>,
                              <<128, 0, 0, 0, 0, 0, 0, 0>>,
                              <<0, 0, 0, 0, 255, 255, 255, 255>> } }
    \cup { F32(0, 0, 0), F32(1, 0, 0), F32(0, 127, 0), F32(1, 127, 4194304),
           F32(0, 255, 0), F32(1, 255, 4194304), F32(0, 0, 1),
           F32(0, 254, 8388607), F32(1, 1, 66051) }
    \cup { F64(0, 0, Zeros(7)), F64(1, 0, Zeros(7)), F64(0, 1023, Zeros(7)),
           F64(1, 1024, <<4, 0, 0, 0, 0, 0, 0>>), F64(0, 2047, Zeros(7)),
           F64(1, 2047, <<8, 0, 0, 0, 0, 0, 1>>),
           F64(0, 2046, <<15, 255, 255, 255, 255, 255, 255>>),
           F64(0, 1, <<1, 2, 3, 4, 5, 6, 7>>) }
    \cup { Str(bs) : bs \in { <<>>, <<97>>, <<97, 98, 99>>, <<97, 0, 99>>, <<0>>,
                              <<97, 98, 99, 0>>, <<0, 97>>, Text(8, 120),
                              <<195, 169, 33>> } }

CursorLens == {0, 3, 8, 9, 12}

\* Positions a caller may give the cursor over a buffer of n bytes:
\* Cursor::set_position takes any position, also one past the end.
CursorPositions(n) == {p \in {0, 1} : p <= n} \cup {n + 2}

WriteValue(d) ==
    /\ Running
    /\ metrics[d] # NoMetric
    /\ LET r == write_value(endian, metrics[d], cursor)
       IN  /\ cursor' = r
           /\ last' = Call("write_value", d, cursor, r.res)
    /\ UNCHANGED <<endian, metrics, mem, ctor, thr>>

InitCodec ==
    /\ endian \in {"BigEndian", "LittleEndian"}
    /\ \E v \in CodecVals :
          /\ metrics = [d \in Descs |->
                IF d = 1
                THEN new(<<109>>, 1, "Counter", 0, v, <<115>>, <<108>>)
                ELSE NoMetric]
          /\ ctor = [d \in Descs |->
                IF d = 1
                THEN [name |-> <<109>>, item |-> 1, sem |-> "Counter",
                      dim |-> 0, init_val |-> v, shorthelp |-> <<115>>,
                      longhelp |-> <<108>>]
                ELSE NoMetric]
    /\ \E n \in CursorLens : \E p \in CursorPositions(n) :
          /\ cursor = [buf |-> Text(n, 170), pos |-> p, res |-> "Ok"]
    /\ mem = [scratch |-> Zeros(STRING_BLOCK_LEN), file |-> Text(FileLen, 255)]
    /\ last = Call("init", 0, NoMetric, "Ok")
    /\ thr = [d \in Descs |-> Idle]

NextCodec == \E d \in Descs : WriteValue(d)

SpecCodec == InitCodec /\ [][NextCodec]_vars

\* The sink before the last write_value, and the room it had.
Before == last.arg

Room == Len(Before.buf) - Before.pos

\* The bytes the last write_value put into the sink.
Written == SubSeq(cursor.buf, Before.pos + 1, cursor.pos)

\* The last write_value changed no byte of the sink outside Written.
OnlyWritten ==
    /\ Len(cursor.buf) = Len(Before.buf)
    /\ cursor.pos >= Before.pos
    /\ \A i \in 1..Len(cursor.buf) :
          (i <= Before.pos \/ i > cursor.pos) => cursor.buf[i] = Before.buf[i]

\* C6: encoding a numeric value into a sink with room writes exactly 8
\* bytes; read as a 64-bit unsigned integer in the configured byte order
\* they are the value's bit pattern zero-extended (the upper 32 bits of a
\* 32-bit type are zero, also for a negative i32), and truncating that
\* integer to the value's width and reinterpreting it gives the value back.
C6_NumericEncoding ==
    \A d \in Descs :
        (/\ last.op = "write_value" /\ last.d = d
         /\ metrics[d].val.ty # "String"
         /\ Room >= 8)
            => LET v == val(metrics[d])
                   u == read_u64(endian, Written)
               IN  /\ last.res = "Ok"
                   /\ Len(Written) = 8
                   /\ OnlyWritten
                   /\ v.ty \in {"i32", "u32", "f32"} => SubSeq(u, 1, 4) = Zeros(4)
                   /\ Reinterpret(v.ty, u) = v

\* C6 witness: a negative i32 was encoded in little-endian order.
C6_Witness ==
    /\ last.op = "write_value" /\ last.res = "Ok"
    /\ endian = "LittleEndian"
    /\ metrics[1].val.ty = "i32"
    /\ metrics[1].val.n < 0
    /\ Written = <<0, 255, 255, 255, 0, 0, 0, 0>>

\* C7: encoding a text without a zero byte into a sink with room writes the
\* text's bytes and then one zero byte, Len + 1 bytes of which only the last
\* is zero; encoding a text with a zero byte anywhere fails and writes
\* nothing.
C7_TextEncoding ==
    \A d \in Descs :
        (/\ last.op = "write_value" /\ last.d = d
         /\ metrics[d].val.ty = "String")
            => LET s == val(metrics[d]).s
               IN  /\ (\E i \in 1..Len(s) : s[i] = 0)
                        => /\ last.res # "Ok"
                           /\ cursor.buf = Before.buf
                           /\ cursor.pos = Before.pos
                   /\ ((\A i \in 1..Len(s) : s[i] # 0) /\ Room >= Len(s) + 1)
                        => /\ last.res = "Ok"
                           /\ OnlyWritten
                           /\ Len(Written) = Len(s) + 1
                           /\ SubSeq(Written, 1, Len(s)) = s
                           /\ \A i \in 1..Len(Written) :
                                 Written[i] = 0 <=> i = Len(s) + 1

\* C7 witness: "abc" was encoded as 0x61 0x62 0x63 0x00.
C7_Witness ==
    /\ last.op = "write_value" /\ last.res = "Ok"
    /\ metrics[1].val = Str(<<97, 98, 99>>)
    /\ Written = <<97, 98, 99, 0>>

----------------------------------------------------------------------------
(* SpecConc: two threads, one descriptor each, both descriptors still on   *)
(* the placeholder, each calling set_val once with no synchronisation.     *)
(* The copy into the mapping is a plain memcpy racing with the other       *)
(* thread's: it stores the bytes in units of 1, 4 or 8 bytes, depending on *)
(* the target and the build, and the other thread may run between units.   *)

CopyWidths == {1, 4, 8}

ConcVals ==
    { I32(1), I32(-2), U64(<<1, 2, 3, 4, 5, 6, 7, 8>>),
      U64(<<9, 9, 9, 9, 9, 9, 9, 9>>),
      Str(<<97, 98>>), Str(<<97, 0, 98>>) }

ConcInitVals == { I32(0), U64(Zeros(8)), Str(<<>>) }

\* The bytes write_to_writer hands to write_all for a numeric value.
numeric_bytes(e, v) == endian_bytes(e, as_u64(transmute(v)))

\* The bytes write_to_writer hands to write_all: the 8 bytes of a numeric
\* value, or a text's bytes and its terminator; CString::new fails on a text
\* with a zero byte, before there is anything to copy.
encoded(e, v) ==
    IF v.ty = "String"
    THEN IF HasNul(v.s)
         THEN [res |-> "InvalidInput", bytes |-> <<>>]
         ELSE [res |-> "Ok", bytes |-> to_bytes_with_nul(v.s)]
    ELSE [res |-> "Ok", bytes |-> numeric_bytes(e, v)]

\* set_val, first half: the assignment to self.val and the encoding into the
\* buffer that write_all will copy from; when the encoding fails the call
\* returns here, with self.val already assigned.
SetValBegin(d, new_val) ==
    /\ thr[d].pc = "idle"
    /\ Live(d)
    /\ new_val.ty = metrics[d].val.ty
    /\ metrics' = [metrics EXCEPT ![d].val = new_val]
    /\ LET enc == encoded(endian, new_val)
       IN  IF enc.res = "Ok"
           THEN /\ \E w \in CopyWidths :
                     thr' = [thr EXCEPT ![d] =
                                [pc |-> "copy", pos |-> 0, res |-> "Ok",
                                 buf |-> enc.bytes, width |-> w]]
                /\ UNCHANGED last
           ELSE /\ thr' = [thr EXCEPT ![d] =
                              [pc |-> "done", pos |-> 0, res |-> enc.res,
                               buf |-> <<>>, width |-> 8]]
                /\ last' = Call("set_val", d, new_val, enc.res)
    /\ UNCHANGED <<endian, mem, cursor, ctor>>

\* set_val, the copy: the next unit of the buffer is stored into the view.
SetValCopy(d) ==
    /\ thr[d].pc = "copy"
    /\ LET view == metrics[d].mmap_view
           amt == Min(Len(thr[d].buf), view.len)
           n == Min(thr[d].width, amt - thr[d].pos)
       IN  /\ thr[d].pos < amt
           /\ mem' = [mem EXCEPT ![view.map] =
                  [i \in 1..Len(mem[view.map]) |->
                      IF /\ view.off + thr[d].pos < i
                         /\ i <= view.off + thr[d].pos + n
                      THEN thr[d].buf[i - view.off] ELSE mem[view.map][i]]]
           /\ thr' = [thr EXCEPT ![d].pos = thr[d].pos + n]
    /\ UNCHANGED <<endian, metrics, cursor, last, ctor>>

\* set_val, the return: Ok when everything was copied.
SetValReturn(d) ==
    /\ thr[d].pc = "copy"
    /\ LET amt == Min(Len(thr[d].buf), metrics[d].mmap_view.len)
           res == IF amt = Len(thr[d].buf) THEN "Ok" ELSE "WriteZero"
       IN  /\ thr[d].pos = amt
           /\ thr' = [thr EXCEPT ![d].pc = "done", ![d].res = res]
           /\ last' = Call("set_val", d, val(metrics[d]), res)
    /\ UNCHANGED <<endian, metrics, mem, cursor, ctor>>

InitConc ==
    /\ endian \in {"BigEndian", "LittleEndian"}
    /\ \E v1 \in ConcInitVals, v2 \in ConcInitVals :
          /\ metrics = [d \in Descs |->
                new(<<109>>, d, "Counter", 0, IF d = 1 THEN v1 ELSE v2,
                    <<115>>, <<108>>)]
          /\ ctor = [d \in Descs |->
                [name |-> <<109>>, item |-> d, sem |-> "Counter", dim |-> 0,
                 init_val |-> IF d = 1 THEN v1 ELSE v2,
                 shorthelp |-> <<115>>, longhelp |-> <<108>>]]
    /\ mem = [scratch |-> Zeros(STRING_BLOCK_LEN), file |-> Text(FileLen, 255)]
    /\ cursor = NoCursor
    /\ last = Call("init", 0, NoMetric, "Ok")
    /\ thr = [d \in Descs |-> Idle]

NextConc ==
    \/ \E d \in Descs, v \in ConcVals : SetValBegin(d, v)
    \/ \E d \in Descs : SetValCopy(d)
    \/ \E d \in Descs : SetValReturn(d)

SpecConc == InitConc /\ [][NextConc]_vars

\* C5: once both concurrent set_val calls of two descriptors of equal
\* encoded width (numeric, 8 bytes) on the shared placeholder have returned,
\* the first 8 bytes of the placeholder are the full encoding of one of the
\* two values, never a mix of bytes of both.
C5_NoTornPlaceholder ==
    (/\ thr[1].pc = "done" /\ thr[2].pc = "done"
     /\ BothUnbound
     /\ \A d \in Descs : val(metrics[d]).ty # "String")
        => \E d \in Descs :
              SubSeq(mem.scratch, 1, 8) = numeric_bytes(endian, val(metrics[d]))

====
